---- MODULE Spec2Model ----
(***************************************************************************)
(* Voice memo -> calendar event pipeline (main.py).                        *)
(*                                                                         *)
(* Text is a sequence of tokens. A token is a short string standing for a  *)
(* run of characters: " " is one whitespace character, "," a comma, "@" an *)
(* at-sign, every other token a run of non-blank characters. The empty     *)
(* Python string is the empty sequence <<>>.                               *)
(*                                                                         *)
(* A field mapping (a Python dict) is a function from a set of keys to     *)
(* text; a key outside its DOMAIN is absent.                               *)
(***************************************************************************)
EXTENDS Integers, Sequences, FiniteSets, TLC

VARIABLES
    pc,             \* position of the running entry point
    task_details,   \* the dict threaded through the pipeline
    entry_details,  \* the dict as it was passed to the running function
    ask_pc,         \* ask_follow_up_questions: idle / prompt / retry / returned
    ask_field,      \* ask_follow_up_questions: index of the field being asked
    typed,          \* ask_follow_up_questions: the line the last input() returned
    response,       \* ask_follow_up_questions: local `response`
    prompt_count,   \* prompts issued per field (saturates at MaxPrompts)
    transcript,     \* the transcript text
    calls,          \* calls made to the external boundaries, in order
    out             \* messages printed by main and the functions it calls

vars == <<pc, task_details, entry_details, ask_pc, ask_field, typed, response,
          prompt_count, transcript, calls, out>>

askVars == <<entry_details, ask_pc, ask_field, typed, response, prompt_count>>

-----------------------------------------------------------------------------
(* Bounds *)

\* prompts counted per field before the counter saturates
MaxPrompts == 2
\* fields of the mapping passed to ask_follow_up_questions that may be missing
MaxMissing == 2

-----------------------------------------------------------------------------
(* Text helpers: str.strip, dict.get, dict assignment *)

IsSpace(c) == c \in {" ", "\n"}

RECURSIVE LStrip(_)
LStrip(s) == IF s # <<>> /\ IsSpace(Head(s)) THEN LStrip(Tail(s)) ELSE s

RECURSIVE RStrip(_)
RStrip(s) ==
    IF s # <<>> /\ IsSpace(s[Len(s)]) THEN RStrip(SubSeq(s, 1, Len(s) - 1)) ELSE s

\* a mutant of Strip: the answer is stored as typed
StripNoOp(s) == s

Strip(s) == RStrip(LStrip(s))

Get(d, k, default) == IF k \in DOMAIN d THEN d[k] ELSE default

Put(d, k, v) == [x \in DOMAIN d \cup {k} |-> IF x = k THEN v ELSE d[x]]

EmptyDict == [x \in {} |-> <<>>]

-----------------------------------------------------------------------------
(* ask_follow_up_questions *)

required_fields == <<
    [name |-> "task",         mandatory |-> TRUE],
    [name |-> "date_time",    mandatory |-> TRUE],
    [name |-> "location",     mandatory |-> FALSE],
    [name |-> "description",  mandatory |-> FALSE],
    [name |-> "participants", mandatory |-> FALSE],
    [name |-> "attachments",  mandatory |-> FALSE],
    [name |-> "recurrence",   mandatory |-> FALSE],
    [name |-> "notes",        mandatory |-> FALSE],
    [name |-> "rsvp",         mandatory |-> FALSE] >>

NumFields == Len(required_fields)

FieldNames == {required_fields[i].name : i \in 1..NumFields}

\* a mutant of FieldMissing: the test is `field in task_details` alone
FieldMissingKeyOnly(td, field) == field \notin DOMAIN td

\* the loop's `continue` test, negated
FieldMissing(td, field) == ~(field \in DOMAIN td /\ td[field] # <<>>)

\* the first field at or after index i that the loop will prompt for
\* (NumFields + 1 when the loop runs off the end)
RECURSIVE NextMissing(_, _)
NextMissing(td, i) ==
    IF i > NumFields THEN NumFields + 1
    ELSE IF FieldMissing(td, required_fields[i].name) THEN i
    ELSE NextMissing(td, i + 1)

Bump(n) == IF n < MaxPrompts THEN n + 1 ELSE n

\* what the user may type at a prompt, before .strip()
RawAnswers == { <<>>, <<" ">>, <<"a">>, <<" ", "a", " ">> }

\* where the caller continues once ask_follow_up_questions has returned
AfterAsk(p) == IF p = "complete" THEN "authenticate" ELSE p

\* the for loop moves on from index i (exclusive) with mapping td
AskAdvance(td, i) ==
    LET j == NextMissing(td, i + 1) IN
    /\ task_details' = td
    /\ ask_field' = j
    /\ IF j > NumFields
       THEN /\ ask_pc' = "returned"
            /\ pc' = AfterAsk(pc)
            /\ UNCHANGED prompt_count
       ELSE /\ ask_pc' = "prompt"
            /\ pc' = pc
            /\ prompt_count' = [prompt_count EXCEPT ![j] = Bump(@)]

\* the call: runs up to the first input(), or to the return when no field is missing
AskCall ==
    /\ pc \in {"complete", "ask"}
    /\ ask_pc = "idle"
    /\ entry_details' = task_details
    /\ AskAdvance(task_details, 0)
    /\ UNCHANGED <<typed, response, transcript, calls, out>>

\* an input() returns: lines 148-157 for the field being asked
AskAnswer ==
    /\ ask_pc \in {"prompt", "retry"}
    /\ \E raw \in RawAnswers :
        LET field == required_fields[ask_field]
            r == Strip(raw)
        IN  /\ typed' = raw
            /\ response' = r
            /\ IF r # <<>>
               THEN AskAdvance(Put(task_details, field.name, r), ask_field)
               ELSE IF field.mandatory
               THEN /\ ask_pc' = "retry"
                    /\ prompt_count' = [prompt_count EXCEPT ![ask_field] = Bump(@)]
                    /\ UNCHANGED <<pc, task_details, ask_field>>
               ELSE AskAdvance(task_details, ask_field)
    /\ UNCHANGED <<entry_details, transcript, calls, out>>

-----------------------------------------------------------------------------
(* ask_follow_up_questions called on its own, on a bounded set of mappings *)

AllKeys == FieldNames \cup {"with_whom"}

\* a value for a key on entry: absent ("-"), the empty string, or text
EntryValues == {<<"-">>, <<>>, <<"p">>}

EntryMappings ==
    LET Choices == [AllKeys -> EntryValues]
        Dict(c) == [k \in {x \in AllKeys : c[x] # <<"-">>} |-> c[k]]
        NMissing(c) == Cardinality({k \in FieldNames : c[k] # <<"p">>})
    IN  {Dict(c) : c \in {c \in Choices : NMissing(c) <= MaxMissing \/ \A k \in AllKeys : c[k] = <<"-">>}}

\* no call of ask_follow_up_questions has been made
AskIdle ==
    /\ entry_details = EmptyDict
    /\ ask_pc = "idle"
    /\ ask_field = 0
    /\ typed = <<>>
    /\ response = <<>>
    /\ prompt_count = [i \in 1..NumFields |-> 0]

InitAsk ==
    /\ pc = "ask"
    /\ task_details \in EntryMappings
    /\ AskIdle
    /\ transcript = <<>>
    /\ calls = <<>>
    /\ out = <<>>

NextAsk == AskCall \/ AskAnswer

SpecAsk == InitAsk /\ [][NextAsk]_vars

\* the single thread runs on, and input() blocks until the user answers: the
\* call is made and a pending prompt is eventually answered
SpecAskFair == InitAsk /\ [][NextAsk]_vars /\ WF_vars(AskCall) /\ WF_vars(AskAnswer)

-----------------------------------------------------------------------------
(* Time: datetime values, isoformat, timedelta addition, dateparser.parse  *)
(*                                                                         *)
(* A datetime is [ordinal, hour, minute, second, tz]: the proleptic day    *)
(* number and the wall-clock time, with the fixed-offset tzinfo that the   *)
(* parser attached. Days run from 1 to MaxOrdinal (date.max).              *)

\* the last day a datetime can hold
MaxOrdinal == 2

TzInfos == { [name |-> "UTC", suffix |-> "+00:00", offset |-> 0],
             [name |-> "EST", suffix |-> "-05:00", offset |-> -300] }

\* a naive datetime's tzinfo (None); the parser is asked for aware datetimes
\* and attaches one of TzInfos
NoTz == [name |-> "None", suffix |-> "", offset |-> 0]

Pad2(n) == IF n < 10 THEN "0" \o ToString(n) ELSE ToString(n)

\* datetime.isoformat(): date, "T", hh:mm:ss and the UTC offset
isoformat(dt) ==
    << "day" \o ToString(dt.ordinal), "T", Pad2(dt.hour), ":", Pad2(dt.minute), ":",
       Pad2(dt.second), dt.tz.suffix >>

\* a mutant of AddHours: the hour is bumped with no carry into the day
AddHoursNoCarry(dt, h) ==
    [kind |-> "datetime", value |-> [dt EXCEPT !.hour = (dt.hour + h) % 24]]

\* datetime + timedelta(hours=h): wall-clock addition that keeps tzinfo and
\* raises OverflowError when the day leaves 1..MaxOrdinal
AddHours(dt, h) ==
    LET total == dt.hour * 3600 + dt.minute * 60 + dt.second + h * 3600
        days  == dt.ordinal + (total \div 86400)
        rem   == total % 86400
    IN  IF 0 < days /\ days <= MaxOrdinal
        THEN [kind |-> "datetime",
              value |-> [ordinal |-> days, hour |-> rem \div 3600,
                         minute |-> (rem % 3600) \div 60, second |-> rem % 60,
                         tz |-> dt.tz]]
        ELSE [kind |-> "raise"]

\* the datetimes the parser is taken to produce
ParsedTimes ==
    [ordinal : {1, MaxOrdinal}, hour : {15, 23}, minute : {30}, second : {0},
     tz : TzInfos]

\* what dateparser.parse may do with free text: a datetime, None, or an exception
ParseOutcomes ==
    {[kind |-> "datetime", value |-> dt] : dt \in ParsedTimes}
        \cup {[kind |-> "none"], [kind |-> "raise"]}

\* text that is the isoformat of a datetime is parsed back to that datetime
IsIso(s) == \E dt \in ParsedTimes : isoformat(dt) = s

\* dateparser.parse(s, RETURN_AS_TIMEZONE_AWARE): `oracle` is the library's
\* answer for free text
DateParse(s, oracle) ==
    IF IsIso(s)
    THEN [kind |-> "datetime", value |-> CHOOSE dt \in ParsedTimes : isoformat(dt) = s]
    ELSE oracle

\* the record of a call of dateparser.parse in `calls`
ParseCall(s, oracle) == [api |-> "dateparser.parse", arg |-> s, result |-> DateParse(s, oracle)]

\* parse_time: the datetime, or an exception (None is turned into ValueError)
parse_time(s, oracle) ==
    LET dt == DateParse(s, oracle)
    IN  IF dt.kind = "datetime" THEN dt ELSE [kind |-> "raise"]

-----------------------------------------------------------------------------
(* create_calendar_event *)

\* str.split(","): the pieces between commas, empty ones included
RECURSIVE SplitComma(_)
SplitComma(s) ==
    IF \E i \in 1..Len(s) : s[i] = ","
    THEN LET i == CHOOSE i \in 1..Len(s) : s[i] = "," /\ \A j \in 1..(i - 1) : s[j] # ","
         IN  <<SubSeq(s, 1, i - 1)>> \o SplitComma(SubSeq(s, i + 1, Len(s)))
    ELSE <<s>>

HasAt(s) == \E i \in 1..Len(s) : s[i] = "@"

\* a mutant of Attendees: every comma-separated entry becomes an attendee
AttendeesUnfiltered(participants) ==
    LET parts == SplitComma(participants)
    IN  [i \in 1..Len(parts) |-> [email |-> Strip(parts[i])]]

\* the list comprehension of line 217
RECURSIVE AttendeesOf(_)
AttendeesOf(parts) ==
    IF parts = <<>> THEN <<>>
    ELSE (IF HasAt(Head(parts)) THEN <<[email |-> Strip(Head(parts))]>> ELSE <<>>)
             \o AttendeesOf(Tail(parts))

Attendees(participants) == AttendeesOf(SplitComma(participants))

reminders ==
    [useDefault |-> FALSE,
     overrides |-> << [method |-> "email", minutes |-> 24 * 60],
                      [method |-> "popup", minutes |-> 30] >>]

TimeZoneLabel(dt) == IF dt.tz # NoTz THEN dt.tz.name ELSE "UTC"

\* a mutant of Description: the RSVP line is left out
DescriptionNoRsvp(td) ==
    LET attachments == Get(td, "attachments", <<>>)
        notes == Get(td, "notes", <<>>)
    IN  Get(td, "description", <<>>)
            \o (IF attachments # <<>> THEN <<"\nAttachments/Links: ">> \o attachments ELSE <<>>)
            \o (IF notes # <<>> THEN <<"\nNotes: ">> \o notes ELSE <<>>)

\* event['description'] when the event is inserted (lines 193, 222-230, 241-244)
Description(td) ==
    LET attachments == Get(td, "attachments", <<>>)
        notes == Get(td, "notes", <<>>)
        rsvp == Get(td, "rsvp", <<>>)
    IN  Get(td, "description", <<>>)
            \o (IF attachments # <<>> THEN <<"\nAttachments/Links: ">> \o attachments ELSE <<>>)
            \o (IF notes # <<>> THEN <<"\nNotes: ">> \o notes ELSE <<>>)
            \o (IF rsvp # <<>> THEN <<"\nRSVP: ">> \o rsvp ELSE <<>>)

\* a mutant of Recurrence: the rule is built from the field's text
RecurrenceFromText(td) ==
    IF Get(td, "recurrence", <<>>) # <<>>
    THEN [recurrence |-> <<"RRULE:FREQ=" \o Get(td, "recurrence", <<>>)[1]>>]
    ELSE EmptyDict

\* the optional 'recurrence' entry of the event (lines 232-239)
Recurrence(td) ==
    IF Get(td, "recurrence", <<>>) # <<>>
    THEN [recurrence |-> <<"RRULE:FREQ=WEEKLY;COUNT=10">>]
    ELSE EmptyDict

\* the event dictionary passed to events().insert
BuildEvent(td, start_time, end_time) ==
    LET participants == Get(td, "participants", <<>>)
    IN  [summary |-> Get(td, "task", <<"No Title Provided">>),
         description |-> Description(td),
         start |-> [dateTime |-> isoformat(start_time), timeZone |-> TimeZoneLabel(start_time)],
         end |-> [dateTime |-> isoformat(end_time), timeZone |-> TimeZoneLabel(end_time)],
         location |-> Get(td, "location", <<>>),
         attendees |-> IF participants # <<>> THEN Attendees(participants) ELSE <<>>,
         reminders |-> reminders]
        @@ Recurrence(td)

\* a mutant of AfterCreate: main ends without the listing step
AfterCreateSkipsListing(p) == IF p = "create" THEN "done" ELSE "create_returned"

\* where the caller continues once create_calendar_event has returned
AfterCreate(p) == IF p = "create" THEN "display" ELSE "create_returned"

\* a mutant of StartTime: the date_time field is parsed without the test of line 181
StartTimeUnchecked(td, oracle) == parse_time(Get(td, "date_time", <<>>), oracle)

\* lines 180-186: the start time, or why there is none
StartTime(td, oracle) ==
    IF Get(td, "date_time", <<>>) = <<>>
    THEN [kind |-> "missing"]
    ELSE parse_time(Get(td, "date_time", <<>>), oracle)

\* the whole call: it returns in every case, the exception handler of
\* lines 249-250 catching what parse_time, the addition or the insert raise
create_calendar_event ==
    /\ pc \in {"create", "call_create"}
    /\ pc' = AfterCreate(pc)
    /\ \E oracle \in ParseOutcomes :
        LET start_time == StartTime(task_details, oracle)
            parsed == ParseCall(Get(task_details, "date_time", <<>>), oracle)
        IN
        IF start_time.kind = "missing"
        THEN /\ out' = Append(out, "Event date and time not provided.")
             /\ UNCHANGED calls
        ELSE IF start_time.kind # "datetime"
        THEN /\ out' = out \o <<"Time parsing error", "Error adding event to calendar">>
             /\ calls' = Append(calls, parsed)
        ELSE LET end_time == AddHours(start_time.value, 1) IN
             IF end_time.kind # "datetime"
             THEN /\ out' = Append(out, "Error adding event to calendar")
                  /\ calls' = Append(calls, parsed)
             ELSE /\ calls' = calls \o
                        << parsed,
                           [api |-> "events.insert",
                            body |-> BuildEvent(task_details, start_time.value, end_time.value)] >>
                  /\ \E insert_ok \in BOOLEAN :
                        out' = Append(out, IF insert_ok THEN "Event created successfully"
                                            ELSE "Error adding event to calendar")
    /\ UNCHANGED <<task_details, transcript, askVars>>

-----------------------------------------------------------------------------
(* create_calendar_event called on its own, on a bounded set of mappings *)

\* tokens of a participants string
MaxLen == 4

RECURSIVE SeqsUpTo(_, _)
SeqsUpTo(S, n) ==
    IF n = 0 THEN {<<>>}
    ELSE LET shorter == SeqsUpTo(S, n - 1)
         IN  shorter \cup {Append(s, c) : s \in shorter, c \in S}

\* a dict from a choice of values, <<"-">> standing for an absent key
AsDict(c) == [k \in {x \in DOMAIN c : c[x] # <<"-">>} |-> c[k]]

SomeIso == isoformat([ordinal |-> 1, hour |-> 23, minute |-> 30, second |-> 0,
                      tz |-> CHOOSE z \in TzInfos : z.name = "EST"])

\* "a@x.com, b, c@y.com"
SpecExample == <<"a", "@", "x.com", ",", " ", "b", ",", " ", "c", "@", "y.com">>

BuildMappings ==
    LET Rich == [task : {<<"-">>, <<"T">>},
                 date_time : {<<"-">>, <<>>, <<"3pm">>, SomeIso},
                 location : {<<"-">>, <<"l">>},
                 description : {<<"-">>, <<>>, <<"d">>},
                 participants : {<<"-">>, <<"a", "@", "x">>},
                 attachments : {<<"-">>, <<>>, <<"f">>},
                 recurrence : {<<"-">>, <<>>, <<"yes">>, <<"weekly">>, <<"none">>},
                 notes : {<<"-">>, <<>>, <<"n">>},
                 rsvp : {<<"-">>, <<>>, <<"r">>}]
        People == [task : {<<"T">>},
                   date_time : {<<"3pm">>},
                   participants : SeqsUpTo({"a", "@", ",", " "}, MaxLen)
                                      \cup {SpecExample}]
    IN  {AsDict(c) : c \in Rich} \cup {AsDict(c) : c \in People}

InitBuild ==
    /\ pc = "call_create"
    /\ task_details \in BuildMappings
    /\ AskIdle
    /\ transcript = <<>>
    /\ calls = <<>>
    /\ out = <<>>

NextBuild == create_calendar_event

SpecBuild == InitBuild /\ [][NextBuild]_vars

-----------------------------------------------------------------------------
(* extract_task_details                                                    *)
(*                                                                         *)
(* A transcript is a sequence of the tokens below. PRE stands for one of   *)
(* "schedule", "book", "arrange" (in any case) followed by                 *)
(* " a meeting with ", AT for " at " (both with the blanks the pattern     *)
(* asks for), "w" for a word that is neither.                              *)

PRE == "schedule a meeting with "
AT == " at "

TranscriptTokens == {PRE, AT, ".", "w", " ", "\n"}

\* where the pattern can match: t[i] is PRE, t[j] the AT that ends group 1,
\* and group 2 ends just before k, at a period or at the end of the text
\* ($ also matches before a final newline); "." never matches a newline
PatternAt(t, i, j, k) ==
    /\ t[i] = PRE
    /\ i + 1 < j /\ t[j] = AT
    /\ \A x \in (i + 1)..(j - 1) : t[x] # "\n"
    /\ j + 1 < k
    /\ \A x \in (j + 1)..(k - 1) : t[x] # "\n"
    /\ \/ k <= Len(t) /\ t[k] = "."
       \/ k = Len(t) + 1
       \/ k = Len(t) /\ t[k] = "\n"

Before(a, b) ==
    \/ a[1] < b[1]
    \/ a[1] = b[1] /\ a[2] < b[2]
    \/ a[1] = b[1] /\ a[2] = b[2] /\ a[3] <= b[3]

\* re.search: the leftmost match, each lazy group as short as the rest allows
RegexSearch(t) ==
    LET n == Len(t)
        M == {m \in {i \in 1..n : t[i] = PRE} \X {j \in 1..n : t[j] = AT} \X (1..(n + 1)) :
                 PatternAt(t, m[1], m[2], m[3])}
    IN  IF M = {} THEN [matched |-> FALSE]
        ELSE LET m == CHOOSE m \in M : \A o \in M : Before(m, o)
             IN  [matched |-> TRUE,
                  group1 |-> SubSeq(t, m[1] + 1, m[2] - 1),
                  group2 |-> SubSeq(t, m[2] + 1, m[3] - 1)]

\* the characters of a token sequence, with the blanks inside PRE and AT
\* made tokens of their own
RECURSIVE Chars(_)
Chars(t) ==
    IF t = <<>> THEN <<>>
    ELSE (IF Head(t) = PRE THEN <<"schedule a meeting with", " ">>
          ELSE IF Head(t) = AT THEN <<" ", "at", " ">>
          ELSE <<Head(t)>>) \o Chars(Tail(t))

\* a mutant of extract_task_details: a time that does not parse leaves the
\* mapping without date_time instead of emptying it
ExtractKeepsPartial(transcript_text, oracle) ==
    LET task == RegexSearch(transcript_text) IN
    IF task.matched
    THEN LET with_whom == Strip(Chars(task.group1))
             time_str == Strip(Chars(task.group2))
             time_parsed == DateParse(time_str, oracle)
             base == [task |-> <<"Meeting with ">> \o with_whom, with_whom |-> with_whom]
         IN  [calls |-> <<ParseCall(time_str, oracle)>>,
              out |-> <<>>,
              result |-> IF time_parsed.kind = "datetime"
                         THEN base @@ [date_time |-> isoformat(time_parsed.value)]
                         ELSE base]
    ELSE [calls |-> <<>>,
          out |-> <<"Failed to extract task details using regex.">>,
          result |-> EmptyDict]

\* the function's return value, with what it printed and the parser call it made
extract_task_details(transcript_text, oracle) ==
    LET task == RegexSearch(transcript_text) IN
    IF task.matched
    THEN LET with_whom == Strip(Chars(task.group1))
             time_str == Strip(Chars(task.group2))
             time_parsed == DateParse(time_str, oracle)
         IN  IF time_parsed.kind = "raise"
             THEN [calls |-> <<ParseCall(time_str, oracle)>>,
                   out |-> <<"Error extracting task details">>,
                   result |-> EmptyDict]
             ELSE IF time_parsed.kind = "none"
             THEN [calls |-> <<ParseCall(time_str, oracle)>>,
                   out |-> <<"Failed to parse time.">>,
                   result |-> EmptyDict]
             ELSE [calls |-> <<ParseCall(time_str, oracle)>>,
                   out |-> <<>>,
                   result |-> [task |-> <<"Meeting with ">> \o with_whom,
                               with_whom |-> with_whom,
                               date_time |-> isoformat(time_parsed.value)]]
    ELSE [calls |-> <<>>,
          out |-> <<"Failed to extract task details using regex.">>,
          result |-> EmptyDict]

\* extract_task_details called on its own
CallExtract ==
    /\ pc = "call_extract"
    /\ \E oracle \in ParseOutcomes :
        LET r == extract_task_details(transcript, oracle)
        IN  /\ task_details' = r.result
            /\ calls' = calls \o r.calls
            /\ out' = out \o r.out
    /\ pc' = "extract_returned"
    /\ UNCHANGED <<transcript, askVars>>

\* tokens of a transcript
MaxTokens == 5

InitExtract ==
    /\ pc = "call_extract"
    /\ transcript \in SeqsUpTo(TranscriptTokens, MaxTokens)
    /\ task_details = EmptyDict
    /\ AskIdle
    /\ calls = <<>>
    /\ out = <<>>

NextExtract == CallExtract

SpecExtract == InitExtract /\ [][NextExtract]_vars

-----------------------------------------------------------------------------
(* main *)

\* "Schedule a meeting with Alice at 3pm tomorrow.", "Remind me to buy milk",
\* and a request whose time runs to the end of the text
MainTranscripts ==
    { <<PRE, "w", AT, "w", " ", "w", ".">>,
      <<"w", " ", "w", " ", "w">>,
      <<"w", " ", PRE, "w", " ", "w", AT, "w">> }

\* a mutant of AfterExtract: an empty extraction goes on to the questions
AfterExtractAlways(result) == "complete"

\* lines 291-293
AfterExtract(result) == IF result = EmptyDict THEN "halted" ELSE "complete"

\* step 1, with transcribe_audio: the transcript, or None on an error status
\* or an exception
MainTranscribe ==
    /\ pc = "transcribe"
    /\ \E outcome \in {"completed", "error", "raise"} :
        /\ calls' = Append(calls, [api |-> "transcriber.transcribe", result |-> outcome])
        /\ IF outcome = "completed"
           THEN /\ transcript' \in MainTranscripts
                /\ out' = Append(out, "Transcript:")
                /\ pc' = "extract"
           ELSE /\ out' = out \o << IF outcome = "error" THEN "Transcription failed"
                                    ELSE "Transcription error",
                                    "Failed to transcribe audio." >>
                /\ pc' = "halted"
                /\ UNCHANGED transcript
    /\ UNCHANGED <<task_details, askVars>>

\* step 2
MainExtract ==
    /\ pc = "extract"
    /\ \E oracle \in ParseOutcomes :
        LET r == extract_task_details(transcript, oracle)
        IN  /\ task_details' = r.result
            /\ calls' = calls \o r.calls
            /\ pc' = AfterExtract(r.result)
            /\ out' = out \o r.out \o
                        (IF AfterExtract(r.result) = "halted"
                         THEN <<"Failed to extract task details.">>
                         ELSE <<"Extracted Task Details:">>)
    /\ UNCHANGED <<transcript, askVars>>

\* step 4: authenticate_google_calendar is not guarded, what it raises leaves main
MainAuthenticate ==
    /\ pc = "authenticate"
    /\ calls' = Append(calls, [api |-> "authenticate"])
    /\ \E ok \in BOOLEAN : pc' = IF ok THEN "create" ELSE "raised"
    /\ UNCHANGED <<task_details, transcript, out, askVars>>

\* step 6: the whole call; a failure of the list call is caught and printed
display_upcoming_events ==
    /\ pc = "display"
    /\ calls' = Append(calls, [api |-> "events.list"])
    /\ \E ok \in BOOLEAN :
        out' = out \o (IF ok THEN <<"Your Upcoming Events:">>
                       ELSE <<"Your Upcoming Events:", "Error fetching upcoming events">>)
    /\ pc' = "done"
    /\ UNCHANGED <<task_details, transcript, askVars>>

Init ==
    /\ pc = "transcribe"
    /\ transcript = <<>>
    /\ task_details = EmptyDict
    /\ AskIdle
    /\ calls = <<>>
    /\ out = <<>>

Next ==
    \/ MainTranscribe
    \/ MainExtract
    \/ AskCall
    \/ AskAnswer
    \/ MainAuthenticate
    \/ create_calendar_event
    \/ display_upcoming_events

Spec == Init /\ [][Next]_vars

-----------------------------------------------------------------------------
(* C1 *)

Mandatory == {"task", "date_time"}

\* C1: a key that held a non-empty value when ask_follow_up_questions was
\* called holds the same value at every later point of the call, and on
\* return both mandatory fields hold a non-empty value.
C1_NoOverwriteMandatorySet ==
    /\ \A k \in DOMAIN entry_details :
          entry_details[k] # <<>> =>
              k \in DOMAIN task_details /\ task_details[k] = entry_details[k]
    /\ ask_pc = "returned" =>
          \A f \in Mandatory : f \in DOMAIN task_details /\ task_details[f] # <<>>

\* a call that returned, found a value to keep, re-prompted a mandatory
\* field that was present but empty, and stored an optional answer
C1_Witness ==
    /\ ask_pc = "returned"
    /\ "with_whom" \in DOMAIN entry_details /\ entry_details["with_whom"] = <<"p">>
    /\ "date_time" \in DOMAIN entry_details /\ entry_details["date_time"] = <<>>
    /\ prompt_count[2] = 2
    /\ "task" \in DOMAIN entry_details /\ entry_details["task"] = <<"p">>
    /\ "notes" \notin DOMAIN entry_details /\ "notes" \in DOMAIN task_details

-----------------------------------------------------------------------------
(* C10 *)

FieldOrder == << "task", "date_time", "location", "description", "participants",
                 "attachments", "recurrence", "notes", "rsvp" >>

HadValue(d, i) == FieldOrder[i] \in DOMAIN d /\ d[FieldOrder[i]] # <<>>

\* r is raw without its leading and trailing blanks
Trimmed(raw, r) ==
    \E lo \in 1..(Len(raw) + 1) : \E hi \in 0..Len(raw) :
        /\ r = SubSeq(raw, lo, hi)
        /\ \A x \in 1..Len(raw) : (x < lo \/ x > hi) => raw[x] = " "
        /\ r # <<>> => r[1] # " " /\ r[Len(r)] # " "

\* the least index above i whose field holds no value in d, 10 when there is none
LeastUnset(d, i) ==
    IF \E j \in (i + 1)..9 : ~HadValue(d, j)
    THEN CHOOSE j \in (i + 1)..9 : ~HadValue(d, j) /\ \A x \in (i + 1)..(j - 1) : HadValue(d, x)
    ELSE 10

C10_Counts ==
    ask_pc # "idle" =>
        \A i \in 1..9 :
            /\ HadValue(entry_details, i) => prompt_count[i] = 0
            /\ i > ask_field => prompt_count[i] = 0
            /\ (i < ask_field /\ ~HadValue(entry_details, i) /\ FieldOrder[i] \notin Mandatory)
                   => prompt_count[i] = 1
            /\ (i <= ask_field /\ ~HadValue(entry_details, i)) => prompt_count[i] >= 1

C10_Step ==
    /\ ask_pc = "idle" =>
          /\ ask_field' = LeastUnset(task_details, 0)
          /\ task_details' = task_details
    /\ ask_pc \in {"prompt", "retry"} =>
          LET i == ask_field
              stay == response' = <<>> /\ FieldOrder[i] \in Mandatory
          IN  /\ Trimmed(typed', response')
              /\ task_details' = IF response' # <<>>
                                 THEN (FieldOrder[i] :> response') @@ task_details
                                 ELSE task_details
              /\ prompt_count'[i] = IF stay /\ prompt_count[i] < MaxPrompts
                                    THEN prompt_count[i] + 1 ELSE prompt_count[i]
              /\ ask_field' = IF stay THEN i ELSE LeastUnset(task_details', i)
              /\ stay => ask_pc' = "retry"
    /\ (ask_field' # ask_field /\ ask_field' <= 9) =>
          /\ ask_pc' = "prompt"
          /\ prompt_count'[ask_field'] = 1
    /\ ask_field' = 10 <=> ask_pc' = "returned"
    /\ ask_pc = "returned" => UNCHANGED vars

\* the call returns exactly when no mandatory field is asked for ever
C10_Live ==
    /\ <>(ask_pc = "returned") => ([]<>(ask_field # 1) /\ []<>(ask_field # 2))
    /\ ([]<>(ask_field # 1) /\ []<>(ask_field # 2)) => <>(ask_pc = "returned")

\* C10: the nine fields are visited in the fixed order; a field holding a
\* value is never prompted for; a missing optional field is prompted for once
\* and set to the trimmed answer iff that is non-empty; a missing mandatory
\* field is prompted for until the trimmed answer is non-empty, which is
\* stored, and not again; the call returns iff every prompted mandatory field
\* eventually gets a non-empty answer.
C10_FieldSchedule == [](C10_Counts) /\ [][C10_Step]_vars /\ C10_Live

\* all nine fields were prompted for, a mandatory one twice, and the call returned
C10_Witness ==
    /\ ask_pc = "returned"
    /\ prompt_count[1] = 2
    /\ \A i \in 2..9 : prompt_count[i] = 1
    /\ "location" \notin DOMAIN task_details
    /\ "notes" \in DOMAIN task_details /\ task_details["notes"] = <<"a">>
    /\ typed = <<" ", "a", " ">>

-----------------------------------------------------------------------------
(* C4 - C7, C9: the event passed to events().insert *)

InsertCalls == {i \in 1..Len(calls) : calls[i].api = "events.insert"}

\* seconds since day 0, 00:00 UTC, read off an isoformat text
Instant(iso) ==
    LET ordinal == CHOOSE n \in 1..(MaxOrdinal + 1) : "day" \o ToString(n) = iso[1]
        hour    == CHOOSE n \in 0..23 : Pad2(n) = iso[3]
        minute  == CHOOSE n \in 0..59 : Pad2(n) = iso[5]
        second  == CHOOSE n \in 0..59 : Pad2(n) = iso[7]
        tz      == CHOOSE z \in TzInfos : z.suffix = iso[8]
    IN  ordinal * 86400 + hour * 3600 + minute * 60 + second - tz.offset * 60

Field(k) == IF k \in DOMAIN task_details THEN task_details[k] ELSE <<>>

Line(label, text) == IF text # <<>> THEN <<label>> \o text ELSE <<>>

\* C5 as claimed: the description is the raw description, then the
\* attachments line, then the notes line, and nothing else.
C5_AsClaimed ==
    \A i \in InsertCalls :
        calls[i].body.description =
            Field("description") \o Line("\nAttachments/Links: ", Field("attachments"))
                \o Line("\nNotes: ", Field("notes"))

\* C5, amended: the description is the raw description, then the attachments
\* line iff attachments is non-empty, then the notes line iff notes is
\* non-empty, then a line "RSVP: <rsvp>" iff rsvp is non-empty.
C5_DescriptionWithRsvp ==
    \A i \in InsertCalls :
        calls[i].body.description =
            Field("description") \o Line("\nAttachments/Links: ", Field("attachments"))
                \o Line("\nNotes: ", Field("notes")) \o Line("\nRSVP: ", Field("rsvp"))

\* an event built from a mapping with all four contributing fields set
C5_Witness ==
    /\ InsertCalls # {}
    /\ Field("description") = <<"d">> /\ Field("attachments") = <<"f">>
    /\ Field("notes") = <<"n">> /\ Field("rsvp") = <<"r">>

\* the comma-separated entries of s, by the index where each starts
EntryStarts(s) == {a \in 1..(Len(s) + 1) : a = 1 \/ s[a - 1] = ","}

EntryAt(s, a) ==
    LET b == CHOOSE b \in a..(Len(s) + 1) :
                 /\ b = Len(s) + 1 \/ s[b] = ","
                 /\ \A x \in a..(b - 1) : s[x] # ","
    IN  SubSeq(s, a, b - 1)

KeptStarts(s) == {a \in EntryStarts(s) : \E x \in 1..Len(EntryAt(s, a)) : EntryAt(s, a)[x] = "@"}

\* C6: the attendees are the comma-separated entries of participants that
\* contain "@", trimmed, in their order; none when there is no such entry.
C6_Attendees ==
    \A i \in InsertCalls :
        LET s == Field("participants")
            att == calls[i].body.attendees
        IN  /\ Len(att) = Cardinality(KeptStarts(s))
            /\ \A a \in KeptStarts(s) :
                  LET n == Cardinality({b \in KeptStarts(s) : b <= a})
                  IN  /\ DOMAIN att[n] = {"email"}
                      /\ Trimmed(EntryAt(s, a), att[n].email)

\* "a@x.com, b, c@y.com" gives a@x.com and c@y.com
C6_Witness ==
    \E i \in InsertCalls :
        /\ Field("participants") = SpecExample
        /\ calls[i].body.attendees =
               << [email |-> <<"a", "@", "x.com">>], [email |-> <<"c", "@", "y.com">>] >>

\* C7: the event has a recurrence key iff the recurrence field is non-empty,
\* and then its value is the one fixed weekly rule.
C7_Recurrence ==
    \A i \in InsertCalls :
        /\ "recurrence" \in DOMAIN calls[i].body <=> Field("recurrence") # <<>>
        /\ "recurrence" \in DOMAIN calls[i].body =>
               calls[i].body.recurrence = <<"RRULE:FREQ=WEEKLY;COUNT=10">>

\* the recurrence text "none" still gives the weekly rule
C7_Witness ==
    \E i \in InsertCalls :
        /\ Field("recurrence") = <<"none">>
        /\ "recurrence" \in DOMAIN calls[i].body

Printed(msg) == \E i \in 1..Len(out) : out[i] = msg

ParseFailed ==
    \E i \in 1..Len(calls) :
        calls[i].api = "dateparser.parse" /\ calls[i].result.kind # "datetime"

\* C9: when date_time is absent or empty, or parse_time fails, the call
\* returns without calling the insert and with the failure printed; no call
\* leaves by an exception; the insert is called at most once.
C9_NoEventOnBadTime ==
    /\ pc \in {"call_create", "create_returned"}
    /\ Cardinality(InsertCalls) <= 1
    /\ pc = "create_returned" =>
          /\ Field("date_time") = <<>> =>
                calls = <<>> /\ out = <<"Event date and time not provided.">>
          /\ ParseFailed =>
                /\ InsertCalls = {}
                /\ Printed("Time parsing error")
                /\ Printed("Error adding event to calendar")

\* a call that returned after parse_time failed on a date_time that was given
C9_Witness ==
    /\ pc = "create_returned"
    /\ Field("date_time") = <<"3pm">>
    /\ ParseFailed
    /\ InsertCalls = {}

-----------------------------------------------------------------------------
(* C8 *)

NoNewline(t, a, b) == \A x \in a..b : t[x] # "\n"

\* the time expression that starts after j can end just before k
TimeEnds(t, j, k) ==
    /\ NoNewline(t, j + 1, k - 1)
    /\ k = Len(t) + 1 \/ t[k] = "." \/ (k = Len(t) /\ t[k] = "\n")

\* the request can be read with its verb phrase at i and its " at " at j
ReadsAt(t, i, j) ==
    /\ t[i] = PRE /\ t[j] = AT /\ j > i + 1
    /\ NoNewline(t, i + 1, j - 1)
    /\ \E k \in (j + 2)..(Len(t) + 1) : TimeEnds(t, j, k)

PatternMatches(t) == \E i, j \in 1..Len(t) : ReadsAt(t, i, j)

Least(S) == CHOOSE x \in S : \A y \in S : x <= y

\* the counterpart and the time expression as captured: leftmost verb phrase,
\* then the shortest counterpart, then the shortest time expression
CapturedI(t) == Least({i \in 1..Len(t) : \E j \in 1..Len(t) : ReadsAt(t, i, j)})
CapturedJ(t) == Least({j \in 1..Len(t) : ReadsAt(t, CapturedI(t), j)})
CapturedK(t) == Least({k \in (CapturedJ(t) + 2)..(Len(t) + 1) : TimeEnds(t, CapturedJ(t), k)})
Counterpart(t) == Chars(SubSeq(t, CapturedI(t) + 1, CapturedJ(t) - 1))
TimeExpression(t) == Chars(SubSeq(t, CapturedJ(t) + 1, CapturedK(t) - 1))

\* s is the ISO-8601 text of datetime dt
IsIsoOf(s, dt) ==
    /\ Len(s) = 8 /\ s[2] = "T" /\ s[4] = ":" /\ s[6] = ":" /\ s[8] = dt.tz.suffix
    /\ Instant(s) = dt.ordinal * 86400 + dt.hour * 3600 + dt.minute * 60 + dt.second
                        - dt.tz.offset * 60

\* C8: extract_task_details returns the empty mapping or one with exactly
\* task, with_whom and date_time. When the pattern matches and the parser
\* gives a datetime for the trimmed time expression, task is "Meeting with "
\* + counterpart, with_whom the trimmed counterpart and date_time the
\* ISO-8601 text of that datetime; in every other case (no match, the parser
\* gives None or raises) the mapping is empty, and the call returns.
C8_Extraction ==
    /\ pc \in {"call_extract", "extract_returned"}
    /\ pc = "extract_returned" =>
          IF PatternMatches(transcript)
          THEN /\ Len(calls) = 1
               /\ calls[1].api = "dateparser.parse"
               /\ Trimmed(TimeExpression(transcript), calls[1].arg)
               /\ IF calls[1].result.kind = "datetime"
                  THEN /\ DOMAIN task_details = {"task", "with_whom", "date_time"}
                       /\ Trimmed(Counterpart(transcript), task_details.with_whom)
                       /\ task_details.task = <<"Meeting with ">> \o task_details.with_whom
                       /\ IsIsoOf(task_details.date_time, calls[1].result.value)
                  ELSE task_details = EmptyDict
          ELSE task_details = EmptyDict /\ calls = <<>>

\* a match whose counterpart is captured with a blank before it, trimmed
\* away, and whose time expression runs to the end of the text
C8_Witness ==
    /\ pc = "extract_returned"
    /\ transcript = <<PRE, " ", "w", AT, "w">>
    /\ DOMAIN task_details = {"task", "with_whom", "date_time"}
    /\ task_details.with_whom = <<"w">>
    /\ task_details.date_time[3] = "23"

-----------------------------------------------------------------------------
(* C2, C3: main *)

CallsOf(api) == {i \in 1..Len(calls) : calls[i].api = api}

\* create_calendar_event reported that it made no event
CreateFailed ==
    \/ Printed("Error adding event to calendar")
    \/ Printed("Event date and time not provided.")

\* C2 as claimed: after a failure at Building or Submitting the Listing step
\* is never executed.
C2_AsClaimed == CreateFailed => CallsOf("events.list") = {}

\* C2, amended: a failure at Building or Submitting is caught and reported
\* inside create_calendar_event, no exception reaches main and the insert is
\* not retried; main then goes on to the Listing step, which is executed
\* once, and the run ends after it.
C2_FailureThenListing ==
    CreateFailed =>
        /\ pc \in {"display", "done"}
        /\ Cardinality(InsertCalls) <= 1
        /\ pc = "display" => CallsOf("events.list") = {}
        /\ pc = "done" =>
              /\ Cardinality(CallsOf("events.list")) = 1
              /\ calls[Len(calls)].api = "events.list"

\* a run in which the insert raised and the listing was executed all the same
C2_Witness ==
    /\ pc = "done"
    /\ InsertCalls # {}
    /\ Printed("Error adding event to calendar")
    /\ CallsOf("events.list") # {}

TranscriptionFailed ==
    \E i \in CallsOf("transcriber.transcribe") : calls[i].result # "completed"

ExtractionEmpty ==
    /\ pc \notin {"transcribe", "extract"}
    /\ ~TranscriptionFailed
    /\ task_details = EmptyDict

\* C3: when transcription fails or extraction returns the empty mapping, main
\* has halted: no prompt was issued, and neither authentication nor the
\* calendar insert nor the calendar list was called.
C3_HaltsBeforePrompting ==
    (TranscriptionFailed \/ ExtractionEmpty) =>
        /\ pc = "halted"
        /\ ask_pc = "idle"
        /\ \A i \in 1..9 : prompt_count[i] = 0
        /\ CallsOf("authenticate") = {}
        /\ CallsOf("events.insert") = {}
        /\ CallsOf("events.list") = {}

\* a run whose transcript matched the pattern but whose time did not parse
C3_Witness ==
    /\ pc = "halted"
    /\ PatternMatches(transcript)
    /\ ParseFailed
    /\ task_details = EmptyDict

====
